---- MODULE Spec2Model ----
(***************************************************************************)
(* Order / checkout lifecycle of the e-commerce backend                    *)
(* (src/controllers/orderService.js): cash orders, payment-provider        *)
(* checkout sessions and webhook-driven order finalisation, over a shared  *)
(* document store (carts, products, orders, users) and the provider's      *)
(* session store.  Every request is handled by an async function; the      *)
(* handlers interleave at their awaits, so each awaited store or provider  *)
(* call is one atomic action of the handler that issues it.                *)
(***************************************************************************)
EXTENDS Integers, Sequences, FiniteSets, TLC

VARIABLES
    carts,      \* Cart collection: cart id -> cart document (existing carts only)
    products,   \* Product collection: product id -> [quantity, sold]
    orders,     \* Order collection, in creation order (the index is the _id)
    sessions,   \* checkout sessions held by the payment provider
    pc,         \* per handler: the await it is suspended at
    req,        \* per handler: the request it is serving
    loc,        \* per handler: its local variables (cart, user, session, order, ...)
    res,        \* per handler: the HTTP status it has sent (0: nothing sent)
    served,     \* per handler: the number of requests that have arrived at it
    origin,     \* history: for each order, the cart id and the request it was built from
    stock0      \* history: per handler, the Product collection when its request arrived

vars == <<carts, products, orders, sessions, pc, req, loc, res, served, origin, stock0>>

store == <<carts, products, orders>>

-----------------------------------------------------------------------------
(* Bounds of the model *)

\* requests the server receives in one run
MaxRequests == 2

Handlers == {"h1", "h2"}
CartIds == {"c1", "c2"}
UserIds == {"u1", "u2"}

-----------------------------------------------------------------------------
(* JavaScript values *)

\* undefined / null: the empty sequence; a present value v: <<v>>
Undefined == <<>>

Some(v) == <<v>>

\* truthiness of an optional number, as the ?: operator tests it
Truthy(v) == v # Undefined /\ v[1] # 0

\* Date.now(): a non-null timestamp
Now == Some("now")

-----------------------------------------------------------------------------
(* Documents *)

Item(p, n, c, pr) == [product |-> p, count |-> n, color |-> c, price |-> pr]

RECURSIVE SumPrice(_)
SumPrice(items) ==
    IF items = <<>> THEN 0
    ELSE Head(items).count * Head(items).price + SumPrice(Tail(items))

Cart(id, owner, items, discount) ==
    [_id |-> id, products |-> items, totalCartPrice |-> SumPrice(items),
     totalAfterDiscount |-> discount, cartOwner |-> owner]

\* User collection: never written by the order subsystem
users == [u \in UserIds |-> [_id |-> u, email |-> u, name |-> u]]

\* customer_email of a session whose user document is gone
NoSuchEmail == "u0"

Addresses ==
    {[country |-> "EG", city |-> "Cairo", street |-> "Tahrir", details |-> "flat 3"]}

\* defaults the Order schema gives the fields Order.create does not set
OrderDefaults ==
    [paymentMethodType |-> "cash", isPaid |-> FALSE, paidAt |-> Undefined,
     isDelivered |-> FALSE, deliveredAt |-> Undefined]

OrderCreate(doc) ==
    [k \in DOMAIN OrderDefaults \cup DOMAIN doc |->
        IF k \in DOMAIN doc THEN doc[k] ELSE OrderDefaults[k]]

-----------------------------------------------------------------------------
(* Store and provider operations *)

\* Model.findById(id): the document, or null
findById(coll, id) == IF id \in DOMAIN coll THEN Some(coll[id]) ELSE Undefined

\* User.findOne({ email }): the user document, or null
findOne(email) ==
    IF \E u \in UserIds : users[u].email = email
    THEN Some(users[CHOOSE u \in UserIds : users[u].email = email])
    ELSE Undefined

\* a delete that removes nothing
findByIdAndDelete_KeepsDocument(coll, id) == coll

\* Cart.findByIdAndDelete(id): the collection without that document
findByIdAndDelete(coll, id) == [k \in DOMAIN coll \ {id} |-> coll[k]]

\* an update that inserts the product when the filter matches none
updateOne_Upsert(prods, item) ==
    [p \in DOMAIN prods \cup {item.product} |->
        IF p # item.product THEN prods[p]
        ELSE IF p \in DOMAIN prods
             THEN [quantity |-> prods[p].quantity - item.count,
                   sold |-> prods[p].sold + item.count]
             ELSE [quantity |-> 0 - item.count, sold |-> item.count]]

\* an update that takes the units from the stock and does not count them sold
updateOne_QuantityOnly(prods, item) ==
    IF item.product \in DOMAIN prods
    THEN [prods EXCEPT ![item.product] =
            [quantity |-> @.quantity - item.count, sold |-> @.sold]]
    ELSE prods

\* an update that counts one unit sold whatever the line's count
updateOne_SoldByOne(prods, item) ==
    IF item.product \in DOMAIN prods
    THEN [prods EXCEPT ![item.product] =
            [quantity |-> @.quantity - item.count, sold |-> @.sold + 1]]
    ELSE prods

\* one updateOne of the bulk write: { filter: {_id: item.product},
\* update: { $inc: { quantity: -item.count, sold: +item.count } } };
\* a filter that matches no document updates nothing
updateOne(prods, item) ==
    IF item.product \in DOMAIN prods
    THEN [prods EXCEPT ![item.product] =
            [quantity |-> @.quantity - item.count, sold |-> @.sold + item.count]]
    ELSE prods

\* a save that writes the whole document as the handler holds it
save_WholeDocument(stored, doc, paths) == doc

\* doc.save() of a document loaded from the store: the update sets the paths
\* assigned since it was loaded and leaves every other field of the stored
\* document as it is
save(stored, doc, paths) ==
    [k \in DOMAIN stored |-> IF k \in paths THEN doc[k] ELSE stored[k]]

\* stripe.webhooks.constructEvent(body, signature, secret) returns the event
\* when the signature validates against the secret, and throws otherwise
\* (a missing header reaches it as undefined)
Signatures == {"missing", "invalid", "valid"}

\* a check that only looks for the header
constructEvent_HeaderOnly(signature) == signature # "missing"

constructEvent(signature) == signature = "valid"

EventTypes == {"checkout.session.completed", "payment_intent.succeeded"}

\* a switch whose default falls into the completed case
EventCase_FallsThrough(type) == "checkout.session.completed"

\* switch (event.type): the case that runs
EventCase(type) ==
    IF type = "checkout.session.completed" THEN "checkout.session.completed"
    ELSE "default"

-----------------------------------------------------------------------------
(* Pure parts of the handlers *)

\* cart.totalAfterDiscount ? cart.totalAfterDiscount : cart.totalCartPrice
CartPrice(cart) ==
    IF Truthy(cart.totalAfterDiscount)
    THEN cart.totalAfterDiscount[1]
    ELSE cart.totalCartPrice

taxPrice == 0

shippingPrice == 0

\* an order that charges a shipping fee
CashOrderDoc_ShippingFee(user, cart, shippingAddress) ==
    [user |-> user,
     cartItems |-> cart.products,
     shippingAddress |-> shippingAddress,
     totalOrderPrice |-> taxPrice + (shippingPrice + 1) + CartPrice(cart)]

\* an order filed under the cart's owner and not the requester
CashOrderDoc_CartOwner(user, cart, shippingAddress) ==
    [user |-> cart.cartOwner,
     cartItems |-> cart.products,
     shippingAddress |-> shippingAddress,
     totalOrderPrice |-> taxPrice + shippingPrice + CartPrice(cart)]

\* the document createCashOrder hands to Order.create
CashOrderDoc(user, cart, shippingAddress) ==
    [user |-> user,
     cartItems |-> cart.products,
     shippingAddress |-> shippingAddress,
     totalOrderPrice |-> taxPrice + shippingPrice + CartPrice(cart)]

\* the request checkoutSession sends to stripe.checkout.sessions.create
SessionRequest(user, cart, cartId, shippingAddress) ==
    [line_items |-> << [name |-> users[user].name,
                        amount |-> CartPrice(cart) * 100,
                        currency |-> "egp",
                        quantity |-> 1] >>,
     mode |-> "payment",
     customer_email |-> users[user].email,
     client_reference_id |-> cartId,
     metadata |-> shippingAddress]

RECURSIVE AmountTotal(_)
AmountTotal(line_items) ==
    IF line_items = <<>> THEN 0
    ELSE Head(line_items).amount * Head(line_items).quantity
            + AmountTotal(Tail(line_items))

\* the session the provider keeps for a request: the request's fields plus
\* the total it computes from the line items
ProviderSession(request) ==
    [client_reference_id |-> request.client_reference_id,
     customer_email |-> request.customer_email,
     amount_total |-> AmountTotal(request.line_items),
     line_items |-> request.line_items,
     metadata |-> request.metadata]

\* (session.metadata && session.metadata.k) ? session.metadata.k : ''
MetadataField(metadata, k) ==
    IF k \in DOMAIN metadata /\ metadata[k] # "" THEN metadata[k] ELSE ""

\* an argument that is built whenever the user is found
OrderArgumentThrows_UserOnly(user, cart) == user = Undefined

\* evaluating { user: user._id, cartItems: cart.products, ... } throws a
\* TypeError when user or cart is null
OrderArgumentThrows(user, cart) == user = Undefined \/ cart = Undefined

\* a card order that leaves the payment fields to the schema's defaults
CardOrderDoc_Defaults(user, cart, session) ==
    [user |-> user._id,
     cartItems |-> cart.products,
     shippingAddress |->
        [country |-> MetadataField(session.metadata, "country"),
         city |-> MetadataField(session.metadata, "city"),
         address |-> MetadataField(session.metadata, "address"),
         details |-> MetadataField(session.metadata, "details")],
     totalOrderPrice |-> session.amount_total \div 100]

\* a card order marked paid without the time of payment
CardOrderDoc_NoPaidAt(user, cart, session) ==
    [user |-> user._id,
     cartItems |-> cart.products,
     shippingAddress |->
        [country |-> MetadataField(session.metadata, "country"),
         city |-> MetadataField(session.metadata, "city"),
         address |-> MetadataField(session.metadata, "address"),
         details |-> MetadataField(session.metadata, "details")],
     totalOrderPrice |-> session.amount_total \div 100,
     paymentMethodType |-> "card",
     isPaid |-> TRUE]

\* the document createOrderCheckout hands to Order.create
CardOrderDoc(user, cart, session) ==
    [user |-> user._id,
     cartItems |-> cart.products,
     shippingAddress |->
        [country |-> MetadataField(session.metadata, "country"),
         city |-> MetadataField(session.metadata, "city"),
         address |-> MetadataField(session.metadata, "address"),
         details |-> MetadataField(session.metadata, "details")],
     \* session.amount_total / 100: amounts here are whole multiples of 100
     totalOrderPrice |-> session.amount_total \div 100,
     paymentMethodType |-> "card",
     isPaid |-> TRUE,
     paidAt |-> Now]

-----------------------------------------------------------------------------
(* Handler bookkeeping *)

NoReq ==
    [op |-> "none", cartId |-> "", user |-> "", shippingAddress |-> Undefined,
     signature |-> "", type |-> "", session |-> Undefined, id |-> 0]

NoLoc ==
    [cart |-> Undefined, user |-> Undefined, session |-> Undefined,
     order |-> Undefined, i |-> 0, doc |-> Undefined]

RECURSIVE Total(_, _)
Total(f, S) ==
    IF S = {} THEN 0
    ELSE LET x == CHOOSE y \in S : TRUE IN f[x] + Total(f, S \ {x})

\* requests received so far
Received == Total(served, Handlers)

\* a handler slot that can take the next request
Free(h) == pc[h] \in {"idle", "done", "rejected"}

\* a request arrives at handler h
Arrive(h, r) ==
    /\ Free(h)
    /\ Received < MaxRequests
    /\ served' = [served EXCEPT ![h] = @ + 1]
    /\ req' = [req EXCEPT ![h] = r]
    /\ stock0' = [stock0 EXCEPT ![h] = products]

\* the handler sends its response and returns
Respond(h, status) ==
    /\ pc' = [pc EXCEPT ![h] = "done"]
    /\ res' = [res EXCEPT ![h] = status]

\* the handler goes on to its next await
Goto(h, label) ==
    /\ pc' = [pc EXCEPT ![h] = label]
    /\ res' = [res EXCEPT ![h] = 0]

\* the promise of webhookCheckout rejects and nothing catches it (the handler
\* is registered as it is, without asyncHandler or try/catch): no response is
\* sent for the request.  The process-level unhandledRejection hook then
\* closes the server once its open connections have ended; the store outlives
\* the process, and the restarted server takes the requests that follow
Reject(h) ==
    /\ pc' = [pc EXCEPT ![h] = "rejected"]
    /\ res' = [res EXCEPT ![h] = 0]

\* an awaited call rejects inside a handler wrapped by asyncHandler: the
\* wrapper hands the error to next(err), the handler runs no further, and the
\* error middleware mounted last answers the request with the failure
Throw(h) == Respond(h, 500)

-----------------------------------------------------------------------------
(* Steps shared by createCashOrder and createOrderCheckout *)

\* a create that replaces the order the user already has, if there is one
Create_ReplacesUsersOrder(h, doc, cartId) ==
    LET mine == {i \in 1..Len(orders) : orders[i].user = doc.user}
        at == IF mine = {} THEN Len(orders) + 1 ELSE CHOOSE i \in mine : TRUE
    IN  /\ orders' = [i \in 1..(IF mine = {} THEN Len(orders) + 1 ELSE Len(orders)) |->
                        IF i = at THEN OrderCreate(doc) ELSE orders[i]]
        /\ origin' = [i \in 1..(IF mine = {} THEN Len(orders) + 1 ELSE Len(orders)) |->
                        IF i = at THEN [cartId |-> cartId, request |-> req[h]]
                        ELSE origin[i]]
        /\ loc' = [loc EXCEPT ![h].order = Some(at), ![h].i = 1]

\* await Order.create(doc): the order is persisted
Create(h, doc, cartId) ==
    /\ orders' = Append(orders, OrderCreate(doc))
    /\ origin' = Append(origin, [cartId |-> cartId, request |-> req[h]])
    /\ loc' = [loc EXCEPT ![h].order = Some(Len(orders) + 1), ![h].i = 1]

\* a batch that writes each product's numbers as computed from the stock the
\* handler saw when its request arrived, not as increments
BulkWrite_ReadModifyWrite(h, next) ==
    /\ products' =
        LET items == loc[h].cart[1].products
            item == items[loc[h].i]
            units == IF item.product = Head(items).product /\ loc[h].i > 1
                     THEN Head(items).count + item.count ELSE item.count
        IN  IF item.product \in DOMAIN products
            THEN [products EXCEPT ![item.product] =
                    [quantity |-> stock0[h][item.product].quantity - units,
                     sold |-> stock0[h][item.product].sold + units]]
            ELSE products
    /\ loc' = [loc EXCEPT ![h].i = @ + 1]
    /\ IF loc[h].i = Len(loc[h].cart[1].products)
       THEN Goto(h, next)
       ELSE UNCHANGED <<pc, res>>

\* a batch built with one update per product: a line whose product an
\* earlier line of the cart already names is left out
BulkWrite_OncePerProduct(h, next) ==
    /\ products' =
        IF \E k \in 1..(loc[h].i - 1) :
                loc[h].cart[1].products[k].product
                    = loc[h].cart[1].products[loc[h].i].product
        THEN products
        ELSE updateOne(products, loc[h].cart[1].products[loc[h].i])
    /\ loc' = [loc EXCEPT ![h].i = @ + 1]
    /\ IF loc[h].i = Len(loc[h].cart[1].products)
       THEN Goto(h, next)
       ELSE UNCHANGED <<pc, res>>

\* a handler that goes on once the first update of the batch is applied
BulkWrite_FirstOnly(h, next) ==
    /\ products' = updateOne(products, loc[h].cart[1].products[loc[h].i])
    /\ loc' = [loc EXCEPT ![h].i = @ + 1]
    /\ Goto(h, next)

\* await Product.bulkWrite(bulkOption, {}): an ordered bulk write applies the
\* updateOne built from each cart item in turn, each atomic on its document,
\* the batch as a whole not; this is the i-th of them, and after the last
\* the handler goes on to `next`
BulkWrite(h, next) ==
    /\ products' = updateOne(products, loc[h].cart[1].products[loc[h].i])
    /\ loc' = [loc EXCEPT ![h].i = @ + 1]
    /\ IF loc[h].i = Len(loc[h].cart[1].products)
       THEN Goto(h, next)
       ELSE UNCHANGED <<pc, res>>

-----------------------------------------------------------------------------
(* createCashOrder: POST /api/orders/:cartId *)

\* a handler that goes on without testing the cart it was given
createCashOrder_findById_NoCheck(h) ==
    \E cartId \in CartIds, user \in UserIds, address \in Addresses :
        /\ Arrive(h, [NoReq EXCEPT !.op = "createCashOrder", !.cartId = cartId,
                                   !.user = user, !.shippingAddress = address])
        /\ loc' = [loc EXCEPT ![h] = [NoLoc EXCEPT !.cart = findById(carts, cartId)]]
        /\ Goto(h, "cash_create")
        /\ UNCHANGED <<carts, products, orders, sessions, origin>>

\* 1) const cart = await Cart.findById(req.params.cartId); 404 when there is none
createCashOrder_findById(h) ==
    \E cartId \in CartIds, user \in UserIds, address \in Addresses :
        /\ Arrive(h, [NoReq EXCEPT !.op = "createCashOrder", !.cartId = cartId,
                                   !.user = user, !.shippingAddress = address])
        /\ loc' = [loc EXCEPT ![h] = [NoLoc EXCEPT !.cart = findById(carts, cartId)]]
        /\ IF findById(carts, cartId) = Undefined
           THEN Respond(h, 404)
           ELSE Goto(h, "cash_create")
        /\ UNCHANGED <<carts, products, orders, sessions, origin>>

\* 2), 3) const order = await Order.create({...})
createCashOrder_create(h) ==
    /\ pc[h] = "cash_create"
    /\ Create(h, CashOrderDoc(req[h].user, loc[h].cart[1], req[h].shippingAddress),
              req[h].cartId)
    /\ Goto(h, "cash_bulkWrite")
    /\ UNCHANGED <<carts, products, sessions, req, served, stock0>>

\* 4) if (order) { await Product.bulkWrite(bulkOption, {}) ...
\* (Order.create returns the document or throws, so the test passes)
createCashOrder_bulkWrite(h) ==
    /\ pc[h] = "cash_bulkWrite"
    /\ BulkWrite(h, "cash_delete")
    /\ UNCHANGED <<carts, orders, sessions, req, served, origin, stock0>>

\* 5) await Cart.findByIdAndDelete(req.params.cartId); then
\* res.status(201).json({ status: 'success', data: order })
createCashOrder_findByIdAndDelete(h) ==
    /\ pc[h] = "cash_delete"
    /\ carts' = findByIdAndDelete(carts, req[h].cartId)
    /\ Respond(h, 201)
    /\ UNCHANGED <<products, orders, sessions, req, loc, served, origin, stock0>>

createCashOrder(h) ==
    \/ createCashOrder_findById(h)
    \/ createCashOrder_create(h)
    \/ createCashOrder_bulkWrite(h)
    \/ createCashOrder_findByIdAndDelete(h)

-----------------------------------------------------------------------------
(* checkoutSession: GET /api/orders/checkout-session/:cartId *)

\* a handler that asks the provider for a session without testing its cart
checkoutSession_findById_NoCheck(h) ==
    \E cartId \in CartIds, user \in UserIds, address \in Addresses :
        /\ Arrive(h, [NoReq EXCEPT !.op = "checkoutSession", !.cartId = cartId,
                                   !.user = user, !.shippingAddress = address])
        /\ loc' = [loc EXCEPT ![h] = [NoLoc EXCEPT !.cart = findById(carts, cartId)]]
        /\ Goto(h, "checkout_create")
        /\ UNCHANGED <<carts, products, orders, sessions, origin>>

\* 1) const cart = await Cart.findById(req.params.cartId); 404 when there is none
checkoutSession_findById(h) ==
    \E cartId \in CartIds, user \in UserIds, address \in Addresses :
        /\ Arrive(h, [NoReq EXCEPT !.op = "checkoutSession", !.cartId = cartId,
                                   !.user = user, !.shippingAddress = address])
        /\ loc' = [loc EXCEPT ![h] = [NoLoc EXCEPT !.cart = findById(carts, cartId)]]
        /\ IF findById(carts, cartId) = Undefined
           THEN Respond(h, 404)
           ELSE Goto(h, "checkout_create")
        /\ UNCHANGED <<carts, products, orders, sessions, origin>>

\* 2), 3) const session = await stripe.checkout.sessions.create({...});
\* res.status(200).json({ status: 'success', session })
checkoutSession_create(h) ==
    /\ pc[h] = "checkout_create"
    /\ sessions' = sessions \cup
            {ProviderSession(SessionRequest(req[h].user, loc[h].cart[1],
                                            req[h].cartId, req[h].shippingAddress))}
    /\ loc' = [loc EXCEPT ![h].session =
            Some(ProviderSession(SessionRequest(req[h].user, loc[h].cart[1],
                                                req[h].cartId, req[h].shippingAddress)))]
    /\ Respond(h, 200)
    /\ UNCHANGED <<carts, products, orders, req, served, origin, stock0>>

checkoutSession(h) ==
    \/ checkoutSession_findById(h)
    \/ checkoutSession_create(h)

-----------------------------------------------------------------------------
(* webhookCheckout: POST /webhook-checkout, and createOrderCheckout *)

\* the events the provider can deliver: only a body whose signature validates
\* is parsed, and only a checkout.session.completed event names a session
Deliveries ==
    {[NoReq EXCEPT !.op = "webhookCheckout", !.signature = sig] :
        sig \in Signatures \ {"valid"}}
    \cup {[NoReq EXCEPT !.op = "webhookCheckout", !.signature = "valid", !.type = t] :
        t \in EventTypes \ {"checkout.session.completed"}}
    \cup {[NoReq EXCEPT !.op = "webhookCheckout", !.signature = "valid",
                        !.type = "checkout.session.completed", !.session = Some(s)] :
        s \in sessions}

\* a handler that acknowledges a completed session before it processes it
webhookCheckout_constructEvent_AcksFirst(h) ==
    \E delivery \in Deliveries :
        /\ Arrive(h, delivery)
        /\ loc' = [loc EXCEPT ![h] = NoLoc]
        /\ IF ~constructEvent(delivery.signature) THEN Respond(h, 400)
           ELSE IF EventCase(delivery.type) = "checkout.session.completed"
                THEN /\ pc' = [pc EXCEPT ![h] = "webhook_retrieve"]
                     /\ res' = [res EXCEPT ![h] = 200]
                ELSE Respond(h, 200)
        /\ UNCHANGED <<carts, products, orders, sessions, origin>>

\* event = stripe.webhooks.constructEvent(...), 400 when it throws;
\* switch (event.type): 'checkout.session.completed' calls
\* createOrderCheckout(event.data.object.id), which runs up to its first await;
\* any other type is logged and answered res.status(200).json({received: true})
webhookCheckout_constructEvent(h) ==
    \E delivery \in Deliveries :
        /\ Arrive(h, delivery)
        /\ loc' = [loc EXCEPT ![h] = NoLoc]
        /\ IF ~constructEvent(delivery.signature) THEN Respond(h, 400)
           ELSE IF EventCase(delivery.type) = "checkout.session.completed"
                THEN Goto(h, "webhook_retrieve")
                ELSE Respond(h, 200)
        /\ UNCHANGED <<carts, products, orders, sessions, origin>>

\* const session = await stripe.checkout.sessions.retrieve(sessionId)
createOrderCheckout_retrieve(h) ==
    /\ pc[h] = "webhook_retrieve"
    /\ loc' = [loc EXCEPT ![h].session = req[h].session]
    /\ Goto(h, "webhook_findById")
    /\ UNCHANGED <<carts, products, orders, sessions, req, served, origin, stock0>>

\* const cart = await Cart.findById(cartId)
createOrderCheckout_findById(h) ==
    /\ pc[h] = "webhook_findById"
    /\ loc' = [loc EXCEPT ![h].cart =
                    findById(carts, loc[h].session[1].client_reference_id)]
    /\ Goto(h, "webhook_findOne")
    /\ UNCHANGED <<carts, products, orders, sessions, req, served, origin, stock0>>

\* const user = await User.findOne({ email: session.customer_email }); then the
\* argument of Order.create is evaluated: user._id and cart.products throw a
\* TypeError when user or cart is null, the promise of webhookCheckout rejects
\* and no response is sent
createOrderCheckout_findOne(h) ==
    /\ pc[h] = "webhook_findOne"
    /\ loc' = [loc EXCEPT ![h].user = findOne(loc[h].session[1].customer_email)]
    /\ IF OrderArgumentThrows(findOne(loc[h].session[1].customer_email), loc[h].cart)
       THEN Reject(h)
       ELSE Goto(h, "webhook_create")
    /\ UNCHANGED <<carts, products, orders, sessions, req, served, origin, stock0>>

\* const order = await Order.create({...})
createOrderCheckout_create(h) ==
    /\ pc[h] = "webhook_create"
    /\ Create(h, CardOrderDoc(loc[h].user[1], loc[h].cart[1], loc[h].session[1]),
              loc[h].cart[1]._id)
    /\ Goto(h, "webhook_bulkWrite")
    /\ UNCHANGED <<carts, products, sessions, req, served, stock0>>

\* if (order) { await Product.bulkWrite(bulkOption, {}) ...
createOrderCheckout_bulkWrite(h) ==
    /\ pc[h] = "webhook_bulkWrite"
    /\ BulkWrite(h, "webhook_delete")
    /\ UNCHANGED <<carts, orders, sessions, req, served, origin, stock0>>

\* await Cart.findByIdAndDelete(cart._id); createOrderCheckout returns, and
\* webhookCheckout goes on to res.status(200).json({ received: true })
createOrderCheckout_findByIdAndDelete(h) ==
    /\ pc[h] = "webhook_delete"
    /\ carts' = findByIdAndDelete(carts, loc[h].cart[1]._id)
    /\ Respond(h, 200)
    /\ UNCHANGED <<products, orders, sessions, req, loc, served, origin, stock0>>

createOrderCheckout(h) ==
    \/ createOrderCheckout_retrieve(h)
    \/ createOrderCheckout_findById(h)
    \/ createOrderCheckout_findOne(h)
    \/ createOrderCheckout_create(h)
    \/ createOrderCheckout_bulkWrite(h)
    \/ createOrderCheckout_findByIdAndDelete(h)

webhookCheckout(h) ==
    \/ webhookCheckout_constructEvent(h)
    \/ createOrderCheckout(h)

-----------------------------------------------------------------------------
(* Initial state and specification *)

\* the carts the cart service has left in the store: c1 with or without a
\* coupon applied (a 100% coupon leaves totalAfterDiscount = 0), c2 with two
\* lines of one product and a line whose product has been deleted
InitCarts ==
    {[c \in CartIds |->
        IF c = "c1"
        THEN Cart("c1", "u1", <<Item("p1", 2, "red", 2), Item("p2", 1, "blue", 1)>>, d)
        ELSE Cart("c2", "u2", <<Item("p1", 1, "red", 2), Item("p0", 1, "red", 1),
                                Item("p1", 1, "blue", 2)>>, Undefined)] :
     d \in {Undefined, Some(0), Some(3)}}

InitProducts ==
    [p \in {"p1", "p2"} |->
        IF p = "p1" THEN [quantity |-> 3, sold |-> 0] ELSE [quantity |-> 1, sold |-> 4]]

\* a session of a customer whose user document has since been removed
OrphanSession ==
    [client_reference_id |-> "c2",
     customer_email |-> NoSuchEmail,
     amount_total |-> 500,
     line_items |-> << [name |-> NoSuchEmail, amount |-> 500,
                        currency |-> "egp", quantity |-> 1] >>,
     metadata |-> CHOOSE a \in Addresses : TRUE]

\* the sessions the provider holds at the start: the one checkoutSession has
\* created for u1 and cart c1, which the customer is paying, and the orphan
InitSessions(cs) ==
    {ProviderSession(SessionRequest("u1", cs["c1"], "c1", CHOOSE a \in Addresses : TRUE)),
     OrphanSession}

Init ==
    /\ carts \in InitCarts
    /\ products = InitProducts
    /\ orders = <<>>
    /\ origin = <<>>
    /\ sessions = InitSessions(carts)
    /\ pc = [h \in Handlers |-> "idle"]
    /\ req = [h \in Handlers |-> NoReq]
    /\ loc = [h \in Handlers |-> NoLoc]
    /\ res = [h \in Handlers |-> 0]
    /\ served = [h \in Handlers |-> 0]
    /\ stock0 = [h \in Handlers |-> InitProducts]

Next ==
    \E h \in Handlers :
        \/ createCashOrder(h)
        \/ checkoutSession(h)
        \/ webhookCheckout(h)

Spec == Init /\ [][Next]_vars

\* the same server taking one request at a time: a request arrives only
\* after the one before it has returned
NextSeq ==
    \/ createCashOrder("h1")
    \/ checkoutSession("h1")
    \/ webhookCheckout("h1")

SpecSeq == Init /\ [][NextSeq]_vars

-----------------------------------------------------------------------------
(* The same handlers when a store or provider call fails *)

\* a handler that answers the failed bulk write by deleting the order it made
createCashOrder_bulkWrite_throws_RollsBack(h) ==
    /\ pc[h] = "cash_bulkWrite"
    /\ Throw(h)
    /\ orders' = SubSeq(orders, 1, loc[h].order[1] - 1)
    /\ origin' = SubSeq(origin, 1, loc[h].order[1] - 1)
    /\ UNCHANGED <<carts, products, sessions, req, loc, served, stock0>>

\* await Product.bulkWrite(...) rejects: an ordered bulk write stops at the
\* first operation that fails and keeps the ones applied before it; nothing
\* after the await runs, the cart deletion included
createCashOrder_bulkWrite_throws(h) ==
    /\ pc[h] = "cash_bulkWrite"
    /\ Throw(h)
    /\ UNCHANGED <<carts, products, orders, sessions, req, loc, served, origin, stock0>>

\* a handler that catches the failed deletion and answers as if it had worked
createCashOrder_findByIdAndDelete_throws_Swallowed(h) ==
    /\ pc[h] = "cash_delete"
    /\ Respond(h, 201)
    /\ UNCHANGED <<carts, products, orders, sessions, req, loc, served, origin, stock0>>

\* await Cart.findByIdAndDelete(...) rejects: the cart stays, and so does
\* everything written before
createCashOrder_findByIdAndDelete_throws(h) ==
    /\ pc[h] = "cash_delete"
    /\ Throw(h)
    /\ UNCHANGED <<carts, products, orders, sessions, req, loc, served, origin, stock0>>

\* await stripe.checkout.sessions.create(...) rejects: no session is made
checkoutSession_create_throws(h) ==
    /\ pc[h] = "checkout_create"
    /\ Throw(h)
    /\ UNCHANGED <<carts, products, orders, sessions, req, loc, served, origin, stock0>>

\* the bulk write or the cart deletion of createOrderCheckout rejects: the
\* promise of webhookCheckout rejects with it, and nothing catches it
createOrderCheckout_throws(h) ==
    /\ pc[h] \in {"webhook_bulkWrite", "webhook_delete"}
    /\ Reject(h)
    /\ UNCHANGED <<carts, products, orders, sessions, req, loc, served, origin, stock0>>

\* one request at a time, any awaited call of which may fail
NextFault ==
    \/ NextSeq
    \/ createCashOrder_bulkWrite_throws("h1")
    \/ createCashOrder_findByIdAndDelete_throws("h1")
    \/ checkoutSession_create_throws("h1")
    \/ createOrderCheckout_throws("h1")

SpecFault == Init /\ [][NextFault]_vars

-----------------------------------------------------------------------------
(* updateOrderToPaid: PUT /api/orders/:id/pay, and
   updateOrderToDelivered: PUT /api/orders/:id/deliver *)

\* the ids a request can name: an order's position in the collection
OrderIds == 1..2

\* const order = await Order.findById(req.params.id); 404 when there is none
updateOrderToPaid_findById(h) ==
    \E id \in OrderIds :
        /\ Arrive(h, [NoReq EXCEPT !.op = "updateOrderToPaid", !.id = id])
        /\ loc' = [loc EXCEPT ![h] = [NoLoc EXCEPT !.doc = findById(orders, id)]]
        /\ IF findById(orders, id) = Undefined
           THEN Respond(h, 404)
           ELSE Goto(h, "paid_save")
        /\ UNCHANGED <<carts, products, orders, sessions, origin>>

\* order.isPaid = true; order.paidAt = Date.now();
\* const updatedOrder = await order.save(); res.status(200).json(...)
updateOrderToPaid_save(h) ==
    /\ pc[h] = "paid_save"
    /\ orders' = [orders EXCEPT ![req[h].id] =
            save(@, [loc[h].doc[1] EXCEPT !.isPaid = TRUE, !.paidAt = Now],
                 {"isPaid", "paidAt"})]
    /\ Respond(h, 200)
    /\ UNCHANGED <<carts, products, sessions, req, loc, served, origin, stock0>>

updateOrderToPaid(h) ==
    \/ updateOrderToPaid_findById(h)
    \/ updateOrderToPaid_save(h)

\* const order = await Order.findById(req.params.id); 404 when there is none
updateOrderToDelivered_findById(h) ==
    \E id \in OrderIds :
        /\ Arrive(h, [NoReq EXCEPT !.op = "updateOrderToDelivered", !.id = id])
        /\ loc' = [loc EXCEPT ![h] = [NoLoc EXCEPT !.doc = findById(orders, id)]]
        /\ IF findById(orders, id) = Undefined
           THEN Respond(h, 404)
           ELSE Goto(h, "delivered_save")
        /\ UNCHANGED <<carts, products, orders, sessions, origin>>

\* a deliver handler copied from the pay handler with its assignments kept
updateOrderToDelivered_save_MarksPaid(h) ==
    /\ pc[h] = "delivered_save"
    /\ orders' = [orders EXCEPT ![req[h].id] =
            save(@, [loc[h].doc[1] EXCEPT !.isDelivered = TRUE, !.deliveredAt = Now,
                                          !.isPaid = TRUE, !.paidAt = Now],
                 {"isDelivered", "deliveredAt", "isPaid", "paidAt"})]
    /\ Respond(h, 200)
    /\ UNCHANGED <<carts, products, sessions, req, loc, served, origin, stock0>>

\* order.isDelivered = true; order.deliveredAt = Date.now();
\* const updatedOrder = await order.save(); res.status(200).json(...)
updateOrderToDelivered_save(h) ==
    /\ pc[h] = "delivered_save"
    /\ orders' = [orders EXCEPT ![req[h].id] =
            save(@, [loc[h].doc[1] EXCEPT !.isDelivered = TRUE, !.deliveredAt = Now],
                 {"isDelivered", "deliveredAt"})]
    /\ Respond(h, 200)
    /\ UNCHANGED <<carts, products, sessions, req, loc, served, origin, stock0>>

updateOrderToDelivered(h) ==
    \/ updateOrderToDelivered_findById(h)
    \/ updateOrderToDelivered_save(h)

\* the store once u2 has ordered cart c2 for cash: the order is there, the
\* stock is adjusted and the cart is gone; c1 is still waiting
InitOrders ==
    /\ carts = [c \in {"c1"} |->
            Cart("c1", "u1", <<Item("p1", 2, "red", 2), Item("p2", 1, "blue", 1)>>,
                 Undefined)]
    /\ products = [p \in {"p1", "p2"} |->
            IF p = "p1" THEN [quantity |-> 1, sold |-> 2]
                        ELSE [quantity |-> 1, sold |-> 4]]
    /\ orders = << OrderCreate(CashOrderDoc("u2",
            Cart("c2", "u2", <<Item("p1", 1, "red", 2), Item("p0", 1, "red", 1),
                               Item("p1", 1, "blue", 2)>>, Undefined),
            CHOOSE a \in Addresses : TRUE)) >>
    /\ origin = << [cartId |-> "c2",
                    request |-> [NoReq EXCEPT !.op = "createCashOrder", !.cartId = "c2",
                                    !.user = "u2",
                                    !.shippingAddress = CHOOSE a \in Addresses : TRUE]] >>
    /\ sessions = InitSessions(carts)
    /\ pc = [h \in Handlers |-> "idle"]
    /\ req = [h \in Handlers |-> NoReq]
    /\ loc = [h \in Handlers |-> NoLoc]
    /\ res = [h \in Handlers |-> 0]
    /\ served = [h \in Handlers |-> 0]
    /\ stock0 = [h \in Handlers |-> products]

NextOrders ==
    \E h \in Handlers :
        \/ createCashOrder(h)
        \/ checkoutSession(h)
        \/ webhookCheckout(h)
        \/ updateOrderToPaid(h)
        \/ updateOrderToDelivered(h)

SpecOrders == InitOrders /\ [][NextOrders]_vars

-----------------------------------------------------------------------------
(* The cart service, which edits carts while the order handlers run *)

\* the cart after the cart service has recomputed its total: the price of
\* its lines, with any discount dropped
calcTotalCartPrice(cart) ==
    [cart EXCEPT !.totalCartPrice = SumPrice(cart.products),
                 !.totalAfterDiscount = Undefined]

\* the customer removes the last line of a cart that has more than one
removeSpecificCartItem(c) ==
    /\ c \in DOMAIN carts
    /\ Len(carts[c].products) > 1
    /\ carts' = [carts EXCEPT ![c] = calcTotalCartPrice(
            [carts[c] EXCEPT !.products =
                SubSeq(carts[c].products, 1, Len(carts[c].products) - 1)])]
    /\ UNCHANGED <<products, orders, sessions, pc, req, loc, res, served, origin, stock0>>

\* the customer applies a 20% coupon to a cart that has none (the carts
\* whose discounted total is a whole number)
applyCoupon(c) ==
    /\ c \in DOMAIN carts
    /\ carts[c].totalAfterDiscount = Undefined
    /\ (carts[c].totalCartPrice * 20) % 100 = 0
    /\ carts' = [carts EXCEPT ![c].totalAfterDiscount =
            Some(carts[c].totalCartPrice - (carts[c].totalCartPrice * 20) \div 100)]
    /\ UNCHANGED <<products, orders, sessions, pc, req, loc, res, served, origin, stock0>>

\* the store with no coupon applied yet
InitCart == Init /\ carts["c1"].totalAfterDiscount = Undefined

\* the five order handlers one request at a time, and the cart service at
\* any moment in between their steps
NextCart ==
    \/ NextSeq
    \/ updateOrderToPaid("h1")
    \/ updateOrderToDelivered("h1")
    \/ \E c \in CartIds : removeSpecificCartItem(c)
    \/ \E c \in CartIds : applyCoupon(c)

SpecCart == InitCart /\ [][NextCart]_vars

-----------------------------------------------------------------------------
(* Vocabulary of the properties *)

\* this step is the arrival of a request at handler h
Arrived(h) == served'[h] = served[h] + 1

\* this step is a step of handler h
Acted(h) == <<pc[h], loc[h], res[h], served[h]>>' # <<pc[h], loc[h], res[h], served[h]>>

\* the order handler h has created for the request it is serving
OrderOf(h) == orders[loc[h].order[1]]

\* handler h is serving a createCashOrder request and has created its order
CashOrderCreated(h) ==
    req[h].op = "createCashOrder" /\ loc[h].order # Undefined

\* handler h is serving a verified checkout.session.completed event
Completion(h) ==
    /\ req[h].op = "webhookCheckout"
    /\ req[h].signature = "valid"
    /\ req[h].type = "checkout.session.completed"

\* units of product p in the line items
RECURSIVE Purchased(_, _)
Purchased(items, p) ==
    IF items = <<>> THEN 0
    ELSE (IF Head(items).product = p THEN Head(items).count ELSE 0)
            + Purchased(Tail(items), p)

-----------------------------------------------------------------------------
(* C1: under every interleaving of createCashOrder requests and
   checkout.session.completed deliveries that reference one cart id, at most
   one order is ever created from that cart. *)
C1_AtMostOneOrderPerCart ==
    \A i, j \in 1..Len(origin) :
        origin[i].cartId = origin[j].cartId => i = j

(* C2: once the signature of a webhook event has been verified, the handler
   answers 200 whatever happens while the event is processed; only a request
   whose signature fails is answered otherwise. *)
C2_VerifiedEventAnswered200 ==
    \A h \in Handlers :
        (req[h].op = "webhookCheckout" /\ req[h].signature = "valid"
            /\ pc[h] \in {"done", "rejected"})
        => res[h] = 200

(* C3: a webhook request whose signature header is missing or does not
   validate is answered at once with a status other than 200, its handler
   takes no further step, and the step that receives it changes no order,
   product or cart. *)
C3_BadSignatureRejected ==
    /\ [](\A h \in Handlers :
            (req[h].op = "webhookCheckout" /\ req[h].signature \in {"missing", "invalid"})
            => (pc[h] = "done" /\ res[h] \notin {0, 200} /\ loc[h] = NoLoc))
    /\ [][\A h \in Handlers :
            (Arrived(h) /\ req'[h].op = "webhookCheckout"
                /\ req'[h].signature \in {"missing", "invalid"})
            => UNCHANGED store]_vars

C3_Witness ==
    \E h \in Handlers :
        /\ req[h].op = "webhookCheckout"
        /\ req[h].signature = "missing"
        /\ res[h] = 400
        /\ DOMAIN carts # {}

(* C4: when a checkout.session.completed event is delivered again after an
   earlier delivery of it has run to completion, the second delivery creates
   no order and changes no product: it never reaches Order.create, the
   Product collection stays as it was when the delivery arrived, and the
   event has produced one order. *)
C4_RedeliveryCreatesNothing ==
    \A h \in Handlers : \A i \in 1..Len(origin) :
        (Completion(h) /\ origin[i].request = req[h] /\ loc[h].order # Some(i))
        => /\ loc[h].order = Undefined
           /\ pc[h] \in {"webhook_retrieve", "webhook_findById", "webhook_findOne",
                         "rejected"}
           /\ products = stock0[h]
           /\ Cardinality({j \in 1..Len(origin) : origin[j].request = req[h]}) = 1

C4_Witness ==
    \E h \in Handlers : \E i \in 1..Len(origin) :
        /\ Completion(h)
        /\ origin[i].request = req[h]
        /\ loc[h].order = Undefined
        /\ pc[h] = "rejected"
        /\ origin[i].cartId \notin DOMAIN carts

(* C5: a verified webhook event whose type is not checkout.session.completed
   is answered 200 at once, its handler takes no further step, and the step
   that receives it leaves orders, carts and products unchanged. *)
C5_UnhandledTypeAcknowledged ==
    /\ [](\A h \in Handlers :
            (req[h].op = "webhookCheckout" /\ req[h].signature = "valid"
                /\ req[h].type # "checkout.session.completed")
            => (pc[h] = "done" /\ res[h] = 200 /\ loc[h] = NoLoc))
    /\ [][\A h \in Handlers :
            (Arrived(h) /\ req'[h].op = "webhookCheckout" /\ req'[h].signature = "valid"
                /\ req'[h].type # "checkout.session.completed")
            => UNCHANGED store]_vars

C5_Witness ==
    \E h \in Handlers :
        /\ req[h].op = "webhookCheckout"
        /\ req[h].signature = "valid"
        /\ req[h].type = "payment_intent.succeeded"
        /\ res[h] = 200
        /\ DOMAIN carts # {}

\* handler h has looked up the cart and the user of its event, and one is missing
Unresolved(h) ==
    /\ Completion(h)
    /\ \/ /\ pc[h] \in {"webhook_findOne", "webhook_create", "webhook_bulkWrite",
                        "webhook_delete", "done", "rejected"}
          /\ loc[h].session # Undefined
          /\ loc[h].cart = Undefined
       \/ /\ pc[h] \in {"webhook_create", "webhook_bulkWrite", "webhook_delete",
                        "done", "rejected"}
          /\ loc[h].session # Undefined
          /\ loc[h].user = Undefined

(* C6: when a verified checkout.session.completed event names a cart id that
   does not resolve, or a customer email no user has, the handler of that
   event creates no order and never reaches Order.create, the bulk write or
   the cart deletion, and none of its steps changes an order, a product or a
   cart. *)
C6_UnresolvedEventChangesNothing ==
    /\ [](\A h \in Handlers :
            Unresolved(h)
            => (loc[h].order = Undefined /\ pc[h] \in {"webhook_findOne", "rejected"}))
    /\ [][\A h \in Handlers :
            ((Unresolved(h) \/ Unresolved(h)') /\ Acted(h) /\ ~Arrived(h))
            => UNCHANGED store]_vars

C6_Witness ==
    \E h \in Handlers :
        /\ Unresolved(h)
        /\ pc[h] = "rejected"
        /\ loc[h].cart = Undefined
        /\ loc[h].user # Undefined
        /\ Len(orders) = 1

(* C7: for every cart on which totalAfterDiscount is set, 0 included, the
   order createCashOrder creates has totalOrderPrice = totalAfterDiscount. *)
C7_DiscountedPriceCharged ==
    \A h \in Handlers :
        (CashOrderCreated(h) /\ loc[h].cart[1].totalAfterDiscount # Undefined)
        => OrderOf(h).totalOrderPrice = loc[h].cart[1].totalAfterDiscount[1]

(* C8: for every cart on which totalAfterDiscount is not set, the order
   createCashOrder creates has totalOrderPrice = totalCartPrice: tax and
   shipping add nothing. *)
C8_FullPriceCharged ==
    \A h \in Handlers :
        (CashOrderCreated(h) /\ loc[h].cart[1].totalAfterDiscount = Undefined)
        => OrderOf(h).totalOrderPrice = loc[h].cart[1].totalCartPrice

C8_Witness ==
    \E h \in Handlers :
        /\ CashOrderCreated(h)
        /\ loc[h].cart[1].totalAfterDiscount = Undefined
        /\ OrderOf(h).totalOrderPrice = 5

(* C9: after a createCashOrder request has completed with 201 and no other
   request running, the cart no longer resolves by its id, and each product's
   quantity is lower and its sold higher than when the request arrived by
   the sum of the counts of the cart's line items that reference it. *)
C9_CashOrderEffects ==
    \A h \in Handlers :
        (req[h].op = "createCashOrder" /\ pc[h] = "done" /\ res[h] = 201)
        => /\ findById(carts, req[h].cartId) = Undefined
           /\ \A p \in DOMAIN products :
                /\ products[p].quantity =
                     stock0[h][p].quantity - Purchased(loc[h].cart[1].products, p)
                /\ products[p].sold =
                     stock0[h][p].sold + Purchased(loc[h].cart[1].products, p)

C9_Witness ==
    \E h \in Handlers :
        /\ req[h].op = "createCashOrder" /\ pc[h] = "done" /\ res[h] = 201
        /\ req[h].cartId = "c2"
        /\ products["p1"].quantity = stock0[h]["p1"].quantity - 2
        /\ products["p1"].sold = stock0[h]["p1"].sold + 2

(* C10: the order createCashOrder creates has paymentMethodType = cash,
   isPaid = false, isDelivered = false, user = the requester, and cartItems
   equal to the line items of the cart as the handler read it. *)
C10_CashOrderFields ==
    \A h \in Handlers :
        CashOrderCreated(h)
        => /\ OrderOf(h).paymentMethodType = "cash"
           /\ OrderOf(h).isPaid = FALSE
           /\ OrderOf(h).isDelivered = FALSE
           /\ OrderOf(h).user = req[h].user
           /\ OrderOf(h).cartItems = loc[h].cart[1].products

C10_Witness ==
    \E h \in Handlers :
        /\ CashOrderCreated(h)
        /\ req[h].user # loc[h].cart[1].cartOwner
        /\ OrderOf(h).user = req[h].user
        /\ Len(OrderOf(h).cartItems) = 3

(* C11: a createCashOrder request whose cart id does not resolve is answered
   404 at once, its handler creates no order and takes no further step, and
   the step that receives it leaves orders, products and carts unchanged. *)
C11_CashOrderNotFound ==
    /\ [](\A h \in Handlers :
            (req[h].op = "createCashOrder" /\ loc[h].cart = Undefined)
            => (pc[h] = "done" /\ res[h] = 404 /\ loc[h].order = Undefined))
    /\ [][\A h \in Handlers :
            (Arrived(h) /\ req'[h].op = "createCashOrder"
                /\ findById(carts, req'[h].cartId) = Undefined)
            => UNCHANGED store]_vars

C11_Witness ==
    \E h \in Handlers :
        /\ req[h].op = "createCashOrder"
        /\ req[h].cartId \notin DOMAIN carts
        /\ loc[h].cart = Undefined
        /\ res[h] = 404
        /\ Len(orders) = 1

(* C12: the order created for a verified checkout.session.completed event
   has paymentMethodType = card, isPaid = true, a non-null paidAt, the user
   whose email is the session's customer_email, and as cartItems the line
   items of the cart named by client_reference_id as the handler read it. *)
C12_CardOrderFields ==
    \A h \in Handlers :
        (Completion(h) /\ loc[h].order # Undefined)
        => /\ OrderOf(h).paymentMethodType = "card"
           /\ OrderOf(h).isPaid = TRUE
           /\ OrderOf(h).paidAt # Undefined
           /\ \E u \in UserIds :
                /\ users[u].email = req[h].session[1].customer_email
                /\ OrderOf(h).user = users[u]._id
           /\ loc[h].cart[1]._id = req[h].session[1].client_reference_id
           /\ OrderOf(h).cartItems = loc[h].cart[1].products

C12_Witness ==
    \E h \in Handlers :
        /\ Completion(h)
        /\ loc[h].order # Undefined
        /\ OrderOf(h).paymentMethodType = "card"
        /\ OrderOf(h).user = "u1"
        /\ Len(OrderOf(h).cartItems) = 2
        /\ pc[h] = "done"
        /\ res[h] = 200

(* C13: for every order, once isPaid is true it is true in every later
   state, and once isDelivered is true it is true in every later state,
   whatever createCashOrder, checkoutSession, webhookCheckout,
   updateOrderToPaid and updateOrderToDelivered requests are served and
   however their steps interleave; no order leaves the store. *)
C13_FlagsNeverRevert ==
    [][\A i \in 1..Len(orders) :
        /\ i <= Len(orders')
        /\ orders[i].isPaid => orders'[i].isPaid
        /\ orders[i].isDelivered => orders'[i].isDelivered]_vars

C13_Witness ==
    /\ orders[1].isPaid /\ orders[1].isDelivered
    /\ orders[1].paymentMethodType = "cash"
    /\ \E h, g \in Handlers :
        /\ req[h].op = "updateOrderToPaid" /\ req[h].id = 1 /\ res[h] = 200
        /\ req[g].op = "updateOrderToDelivered" /\ req[g].id = 1 /\ res[g] = 200
        /\ loc[h].doc[1].isDelivered = FALSE
        /\ loc[g].doc[1].isPaid = FALSE

(* C14: checkoutSession sends the provider exactly one line item, of
   quantity 1, whose amount is 100 times the cart's payable amount: its
   totalAfterDiscount when that is present, 0 included, and its
   totalCartPrice otherwise. *)
C14_SessionAmount ==
    \A h \in Handlers :
        (req[h].op = "checkoutSession" /\ loc[h].session # Undefined)
        => /\ Len(loc[h].session[1].line_items) = 1
           /\ loc[h].session[1].line_items[1].quantity = 1
           /\ loc[h].session[1].line_items[1].amount =
                100 * (IF loc[h].cart[1].totalAfterDiscount # Undefined
                       THEN loc[h].cart[1].totalAfterDiscount[1]
                       ELSE loc[h].cart[1].totalCartPrice)

(* C15: a checkoutSession request whose cart id does not resolve is answered
   404 at once, without a call to the payment provider: no session is made
   and the handler takes no further step.  No step of a checkoutSession
   handler creates an order, adjusts a product or deletes a cart, whether
   the provider's call returns a session or fails. *)
C15_CheckoutSessionLeavesStore ==
    /\ [](\A h \in Handlers :
            (req[h].op = "checkoutSession" /\ loc[h].cart = Undefined)
            => (pc[h] = "done" /\ res[h] = 404 /\ loc[h].session = Undefined))
    /\ [][\A h \in Handlers :
            /\ (Arrived(h) /\ req'[h].op = "checkoutSession"
                    /\ findById(carts, req'[h].cartId) = Undefined)
               => sessions' = sessions
            /\ (Acted(h) /\ req'[h].op = "checkoutSession")
               => UNCHANGED store]_vars

C15_Witness ==
    \E h \in Handlers :
        /\ req[h].op = "checkoutSession"
        /\ req[h].cartId \notin DOMAIN carts
        /\ res[h] = 404
        /\ loc[h].session = Undefined
        /\ Len(orders) = 1
        /\ Cardinality(sessions) = 2

\* handler h has created an order for its request and has run to its end
Returned(h) ==
    /\ req[h].op \in {"createCashOrder", "webhookCheckout"}
    /\ loc[h].order # Undefined
    /\ pc[h] = "done"
    /\ res[h] \in {200, 201}

(* C16: whenever a handler (createCashOrder or the webhook completion) has
   created an order from a cart and has returned, that cart is no longer in
   the store; and a cart that has left the store does not come back.  A
   handler that an error has ended early has not returned. *)
C16_CartGoneAfterReturn ==
    /\ [](\A h \in Handlers :
            Returned(h) => origin[loc[h].order[1]].cartId \notin DOMAIN carts)
    /\ [][DOMAIN carts' \subseteq DOMAIN carts]_vars

C16_Witness ==
    \E h \in Handlers :
        /\ Returned(h)
        /\ Completion(h)
        /\ origin[loc[h].order[1]].cartId = "c1"
        /\ "c1" \notin DOMAIN carts
        /\ Len(orders) = 2
        /\ "c2" \in DOMAIN carts

(* C17: every product's quantity is at least 0 in every reachable state,
   whatever cash orders and webhook completions are served. *)
C17_QuantityNonNegative ==
    \A p \in DOMAIN products : products[p].quantity >= 0

\* handler h has persisted the order of the request it is serving
OrderPersisted(h) ==
    /\ loc[h].order # Undefined
    /\ loc[h].order[1] \in 1..Len(orders)
    /\ origin[loc[h].order[1]].request = req[h]

\* every update of handler h's batch has been applied
BatchComplete(h) == loc[h].i = Len(loc[h].cart[1].products) + 1

(* C18: in createCashOrder and in the webhook completion alike, a handler
   reaches the inventory batch only with its order persisted and reaches the
   cart deletion only with its order persisted and the whole batch applied;
   a step of a handler that changes a product is taken with that handler's
   order in the store, and a step that deletes a cart is taken with its
   order in the store and its batch complete. *)
C18_CreateThenAdjustThenDelete ==
    /\ [](\A h \in Handlers :
            /\ pc[h] \in {"cash_bulkWrite", "webhook_bulkWrite"} => OrderPersisted(h)
            /\ pc[h] \in {"cash_delete", "webhook_delete"}
               => (OrderPersisted(h) /\ BatchComplete(h)))
    /\ [][\A h \in Handlers :
            /\ (Acted(h) /\ products' # products)
               => (~Arrived(h) /\ OrderPersisted(h) /\ ~BatchComplete(h))
            /\ (Acted(h) /\ carts' # carts)
               => (~Arrived(h) /\ OrderPersisted(h) /\ BatchComplete(h))]_vars

C18_Witness ==
    \E h, g \in Handlers :
        /\ pc[h] = "cash_delete" /\ OrderPersisted(h) /\ BatchComplete(h)
        /\ pc[g] = "webhook_bulkWrite" /\ OrderPersisted(g) /\ loc[g].i = 2
        /\ req[h].cartId \in DOMAIN carts
        /\ products # InitProducts

\* handler h created the order of its createCashOrder request, and a call
\* after that failed
FailedAfterCreate(h) ==
    /\ req[h].op = "createCashOrder"
    /\ loc[h].order # Undefined
    /\ pc[h] = "done"
    /\ res[h] = 500

(* C19: when the inventory batch or the cart deletion of createCashOrder
   fails after the order was created, the order stays in the store: the
   failing step writes nothing, so there is no rollback and no compensating
   delete; and when it is the inventory batch that fails, the cart is still
   in the store when the handler has ended. *)
C19_OrderKeptOnFailure ==
    /\ [](\A h \in Handlers :
            FailedAfterCreate(h)
            => /\ OrderPersisted(h)
               /\ ~BatchComplete(h) => req[h].cartId \in DOMAIN carts)
    /\ [][\A h \in Handlers :
            (Acted(h) /\ ~Arrived(h) /\ FailedAfterCreate(h)') => UNCHANGED store]_vars

C19_Witness ==
    \E h \in Handlers :
        /\ FailedAfterCreate(h)
        /\ loc[h].i = 2
        /\ req[h].cartId = "c1"
        /\ "c1" \in DOMAIN carts
        /\ OrderOf(h).cartItems = carts["c1"].products
        /\ products["p1"].quantity = stock0[h]["p1"].quantity - 2
        /\ products["p2"] = stock0[h]["p2"]

(* C20: for every product, quantity + sold is the same in every reachable
   state: each update of an inventory batch lowers quantity and raises sold
   by the same count in one step, however the batches of cash orders and
   webhook completions interleave. *)
C20_QuantityPlusSoldConstant ==
    /\ DOMAIN products = DOMAIN InitProducts
    /\ \A p \in DOMAIN products :
            products[p].quantity + products[p].sold
                = InitProducts[p].quantity + InitProducts[p].sold

C20_Witness ==
    \E h, g \in Handlers :
        /\ pc[h] = "cash_bulkWrite" /\ loc[h].i = 2
        /\ pc[g] = "webhook_bulkWrite" /\ loc[g].i = 2
        /\ req[h].cartId = "c2"
        /\ products["p1"].quantity = 0
        /\ products["p1"].sold = 3

(* C21: when two orders made from two different carts that hold the same
   product have both been fulfilled, and they are the orders in the store,
   every product's quantity is lower and its sold higher than at the start
   by the sum of the two carts' counts for it, however the steps of the two
   handlers interleaved. *)
C21_NoLostUpdate ==
    \A h, g \in Handlers :
        (/\ Returned(h) /\ Returned(g)
         /\ Len(orders) = 2
         /\ origin[loc[h].order[1]].cartId # origin[loc[g].order[1]].cartId)
        => \A p \in DOMAIN products :
            /\ products[p].quantity = InitProducts[p].quantity
                    - (Purchased(OrderOf(h).cartItems, p)
                        + Purchased(OrderOf(g).cartItems, p))
            /\ products[p].sold = InitProducts[p].sold
                    + (Purchased(OrderOf(h).cartItems, p)
                        + Purchased(OrderOf(g).cartItems, p))

C21_Witness ==
    \E h, g \in Handlers :
        /\ Returned(h) /\ Returned(g)
        /\ req[h].op = "createCashOrder" /\ Completion(g)
        /\ origin[loc[h].order[1]].cartId = "c2"
        /\ origin[loc[g].order[1]].cartId = "c1"
        /\ stock0[h] = InitProducts /\ stock0[g] = InitProducts
        /\ products["p1"] = [quantity |-> 0 - 1, sold |-> 4]

\* the cart handler h read has a line whose product is not in the store
HasMissingProduct(h) ==
    \E k \in 1..Len(loc[h].cart[1].products) :
        loc[h].cart[1].products[k].product \notin DOMAIN stock0[h]

(* C22: when a line of the cart references a product that does not exist,
   createCashOrder does not fail and no product appears for it: the handler
   ends with 201, its order is in the store with every line of the cart,
   every existing product is adjusted by the counts of the lines that
   reference it, and the cart is deleted. *)
C22_MissingProductIsNoOp ==
    \A h \in Handlers :
        (req[h].op = "createCashOrder" /\ loc[h].cart # Undefined
            /\ HasMissingProduct(h))
        => /\ res[h] \in {0, 201}
           /\ DOMAIN products = DOMAIN stock0[h]
           /\ pc[h] = "done"
              => /\ res[h] = 201
                 /\ OrderPersisted(h)
                 /\ OrderOf(h).cartItems = loc[h].cart[1].products
                 /\ req[h].cartId \notin DOMAIN carts
                 /\ \A p \in DOMAIN products :
                        products[p] =
                          [quantity |-> stock0[h][p].quantity
                                - Purchased(loc[h].cart[1].products, p),
                           sold |-> stock0[h][p].sold
                                + Purchased(loc[h].cart[1].products, p)]

C22_Witness ==
    \E h \in Handlers :
        /\ req[h].op = "createCashOrder" /\ pc[h] = "done" /\ res[h] = 201
        /\ HasMissingProduct(h)
        /\ OrderOf(h).cartItems[2].product = "p0"
        /\ "p0" \notin DOMAIN products
        /\ products["p1"].sold = stock0[h]["p1"].sold + 2
        /\ "c2" \notin DOMAIN carts

(* C23: an order's cartItems are the lines of the cart as its handler read
   it, and no later step changes them: not updateOrderToPaid or
   updateOrderToDelivered, not an edit or the deletion of the source cart,
   not the creation of a later order. *)
C23_CartItemsImmutable ==
    /\ [](\A h \in Handlers :
            (OrderPersisted(h) /\ req[h].op \in {"createCashOrder", "webhookCheckout"})
            => OrderOf(h).cartItems = loc[h].cart[1].products)
    /\ [][\A i \in 1..Len(orders) :
            /\ i <= Len(orders')
            /\ orders'[i].cartItems = orders[i].cartItems]_vars

C23_Witness ==
    \E h \in Handlers :
        /\ OrderPersisted(h)
        /\ req[h].op = "createCashOrder"
        /\ req[h].cartId \in DOMAIN carts
        /\ Len(carts[req[h].cartId].products) = 1
        /\ Len(OrderOf(h).cartItems) = 3
        /\ Len(orders) = 2
        /\ orders[1].cartItems # orders[2].cartItems

\* orders a and b agree on every field but those named
SameBut(a, b, fields) ==
    /\ DOMAIN a = DOMAIN b
    /\ \A k \in DOMAIN a \ fields : a[k] = b[k]

(* C24: no step deletes an order.  An order in the store is changed only by
   the save of an updateOrderToPaid request for it, in isPaid and paidAt
   alone, or by the save of an updateOrderToDelivered request for it, in
   isDelivered and deliveredAt alone; no step of createCashOrder,
   checkoutSession or webhookCheckout changes an order that exists; and a
   pay or deliver request whose id does not resolve is answered 404 at once
   and changes nothing. *)
C24_OrdersChangeOnlyByPayDeliver ==
    /\ [](\A h \in Handlers :
            (req[h].op \in {"updateOrderToPaid", "updateOrderToDelivered"}
                /\ loc[h].doc = Undefined)
            => (pc[h] = "done" /\ res[h] = 404))
    /\ [][/\ Len(orders') >= Len(orders)
          /\ \A i \in 1..Len(orders) :
                orders'[i] # orders[i]
                => \E h \in Handlers :
                    /\ Acted(h) /\ ~Arrived(h) /\ req[h].id = i
                    /\ \/ /\ req[h].op = "updateOrderToPaid"
                          /\ SameBut(orders[i], orders'[i], {"isPaid", "paidAt"})
                       \/ /\ req[h].op = "updateOrderToDelivered"
                          /\ SameBut(orders[i], orders'[i],
                                     {"isDelivered", "deliveredAt"})
          /\ \A h \in Handlers : Arrived(h) => UNCHANGED store]_vars

C24_Witness ==
    \E h, g \in Handlers :
        /\ req[h].op = "updateOrderToPaid" /\ req[h].id = 1 /\ res[h] = 200
        /\ orders[1].isPaid /\ orders[1].paidAt = Now
        /\ ~orders[1].isDelivered /\ orders[1].deliveredAt = Undefined
        /\ req[g].op = "updateOrderToDelivered" /\ req[g].id = 2 /\ res[g] = 404
        /\ Len(orders) = 1

(* C30: for every order in every reachable state, paidAt is non-null
   exactly when isPaid is true, and deliveredAt is non-null exactly when
   isDelivered is true. *)
C30_TimestampsMatchFlags ==
    \A i \in 1..Len(orders) :
        /\ orders[i].isPaid <=> orders[i].paidAt # Undefined
        /\ orders[i].isDelivered <=> orders[i].deliveredAt # Undefined

C30_Witness ==
    /\ Len(orders) = 2
    /\ orders[1].paymentMethodType = "cash"
    /\ orders[1].isDelivered /\ orders[1].deliveredAt = Now
    /\ ~orders[1].isPaid /\ orders[1].paidAt = Undefined
    /\ orders[2].paymentMethodType = "card"
    /\ orders[2].isPaid /\ orders[2].paidAt = Now
    /\ ~orders[2].isDelivered

(* C25: the country, city, street and details given to checkoutSession are
   the session's metadata, and the order the webhook creates for that
   session has a shippingAddress with the same value for each of them. *)
C25_ShippingAddressRoundTrip ==
    \A h \in Handlers :
        /\ (req[h].op = "checkoutSession" /\ loc[h].session # Undefined)
           => \A k \in {"country", "city", "street", "details"} :
                loc[h].session[1].metadata[k] = req[h].shippingAddress[k]
        /\ (Completion(h) /\ OrderPersisted(h))
           => \A k \in {"country", "city", "street", "details"} :
                /\ k \in DOMAIN OrderOf(h).shippingAddress
                /\ OrderOf(h).shippingAddress[k] = req[h].session[1].metadata[k]

(* C26: the totalOrderPrice of an order the webhook creates is the payable
   amount (totalAfterDiscount if present, else totalCartPrice) of the cart
   whose lines are its cartItems, also when the cart was edited between
   checkoutSession and the delivery of the event. *)
C26_CardPriceMatchesCart ==
    \A h \in Handlers :
        (Completion(h) /\ OrderPersisted(h))
        => /\ OrderOf(h).cartItems = loc[h].cart[1].products
           /\ OrderOf(h).totalOrderPrice =
                (IF loc[h].cart[1].totalAfterDiscount # Undefined
                 THEN loc[h].cart[1].totalAfterDiscount[1]
                 ELSE loc[h].cart[1].totalCartPrice)

(* C27: createCashOrder creates an order only from a cart whose cartOwner is
   the requester: for a request that names another user's cart no order is
   created and no cart or product changes. *)
C27_OnlyOwnCartOrdered ==
    \A h \in Handlers :
        (req[h].op = "createCashOrder" /\ loc[h].cart # Undefined
            /\ loc[h].cart[1].cartOwner # req[h].user)
        => /\ loc[h].order = Undefined
           /\ pc[h] = "done"
           /\ products = stock0[h]
           /\ req[h].cartId \in DOMAIN carts

\* units of product p in the line items of all the orders
RECURSIVE Ordered(_, _)
Ordered(os, p) ==
    IF os = <<>> THEN 0
    ELSE Purchased(Head(os).cartItems, p) + Ordered(Tail(os), p)

(* C28: in every state where no handler is in progress (and no store
   operation has failed), each product's sold has grown since the initial
   state by the sum, over all the orders in the store, of the counts of the
   cartItems that reference it, duplicate orders of one cart included. *)
C28_SoldMatchesOrders ==
    (\A h \in Handlers : Free(h))
    => \A p \in DOMAIN products :
            products[p].sold - InitProducts[p].sold = Ordered(orders, p)

C28_Witness ==
    /\ \A h \in Handlers : Free(h)
    /\ Len(orders) = 2
    /\ origin[1].cartId = "c2" /\ origin[2].cartId = "c2"
    /\ products["p1"].sold = InitProducts["p1"].sold + 4
    /\ Ordered(orders, "p1") = 4

(* C29: webhookCheckout has answered 200 to a verified
   checkout.session.completed event only when the processing of the event
   is over: the order is persisted, every line of the cart has been applied
   to the inventory and the cart is deleted; while the event is being
   processed no answer has been sent. *)
C29_AcknowledgedAfterProcessing ==
    \A h \in Handlers :
        /\ (Completion(h) /\ res[h] = 200)
           => /\ pc[h] = "done"
              /\ OrderPersisted(h)
              /\ BatchComplete(h)
              /\ loc[h].cart[1]._id \notin DOMAIN carts
              /\ \A p \in DOMAIN products :
                    products[p].sold =
                        stock0[h][p].sold + Purchased(OrderOf(h).cartItems, p)
        /\ (Completion(h) /\ pc[h] \notin {"done", "rejected"}) => res[h] = 0

C29_Witness ==
    \E h \in Handlers :
        /\ Completion(h) /\ res[h] = 200 /\ pc[h] = "done"
        /\ loc[h].user # Undefined
        /\ OrderOf(h).paymentMethodType = "card"
        /\ "c1" \notin DOMAIN carts
        /\ products["p2"].sold = stock0[h]["p2"].sold + 1

====
